---- MODULE Spec2Model ----
(***************************************************************************)
(* Grover benchmark (main.py, hardware_stress_test.py,                     *)
(* scalability_study.py, bloch_animation.py).                              *)
(*                                                                         *)
(* Five state machines share the variables below.                          *)
(*   Spec          circuit construction (oracle, search circuit) and the   *)
(*                 exact, noise-free evolution of a state vector through   *)
(*                 the circuit that was built.                             *)
(*   SpecFidelity  calculate_hellinger_fidelity and the success            *)
(*                 probability division of save_results_to_csv, applied    *)
(*                 to bounded histograms.                                  *)
(*   SpecMalformed the builders called with a target that is not a string  *)
(*                 over {0, 1}.                                            *)
(*   SpecSweeps    the programs: main, the noise-rate sweep, the topology  *)
(*                 sweep and the qubit-count sweep.                        *)
(*   SpecDuplicates the functions defined more than once in the            *)
(*                 repository, each copy called on the same arguments.     *)
(*                                                                         *)
(* Amplitudes.  Every gate the builders emit (X, H, CCX/MCX) has a real    *)
(* matrix, and H is the only one that is not a permutation.  A state       *)
(* vector is therefore kept exactly as integers psi[j] with a count hexp   *)
(* of pending 1/sqrt(2) factors: amplitude(j) = psi[j] / sqrt(2)^hexp.     *)
(* Basis index j has qubit q in bit q (Qiskit's little-endian order).      *)
(***************************************************************************)
EXTENDS Integers, Sequences, FiniteSets, TLC

VARIABLES
    func,          \* the function under execution
    target,        \* target_bitstring, a sequence of "0"/"1" characters
    nqubits,       \* qubits declared by QuantumCircuit(n, n)
    nclbits,       \* classical bits declared by QuantumCircuit(n, n)
    qc,            \* the search circuit under construction (gate sequence)
    oracle,        \* the oracle circuit (gate sequence)
    grover_op,     \* grover_operator(oracle) (gate sequence)
    k,             \* iterations the builder decided to compose
    iter,          \* loop counter of the compose loop
    pc,            \* position in the function / simulation
    psi,           \* integer amplitudes, indexed by basis state
    hexp,          \* pending 1/sqrt(2) factors
    ip,            \* next gate of the running circuit (1-based)
    input,         \* basis state the oracle run started from
    passes,        \* how many times the oracle has been applied
    ideal_counts,  \* histogram argument of the fidelity computation
    noisy_counts,  \* histogram argument of the fidelity computation
    shots,         \* shots argument
    outcome,       \* result of the fidelity / probability computation
    program,       \* the program (script entry point) that is running
    idx,           \* sweep points completed by the running loop
    results,       \* results / success_probs / fidelities, in insertion order
    best_backend,  \* best_backend of the topology sweep
    best_fidelity, \* best_fidelity of the topology sweep
    noise_model,   \* gate name -> the error channels registered for it
    calls,         \* the calls of calculate_hellinger_fidelity made so far
    ideal_runs,    \* ideal simulations run so far
    summary        \* what the program wrote at its end

vars == << func, target, nqubits, nclbits, qc, oracle, grover_op, k, iter, pc,
           psi, hexp, ip, input, passes,
           ideal_counts, noisy_counts, shots, outcome,
           program, idx, results, best_backend, best_fidelity, noise_model,
           calls, ideal_runs, summary >>

circuitVars == << func, target, nqubits, nclbits, qc, oracle, grover_op, k,
                  iter, psi, hexp, ip, input, passes >>

fidelityVars == << ideal_counts, noisy_counts, shots, outcome >>

sweepVars == << program, idx, results, best_backend, best_fidelity,
                noise_model, calls, ideal_runs, summary >>

----------------------------------------------------------------------------
(* Bounds *)

\* longest target whose circuit is simulated on a state vector
MaxQubits == 4

\* longest target whose search circuit is built (not simulated)
MaxBuildQubits == 6

\* largest count a histogram holds for one bitstring
MaxCount == 2

\* largest shots argument
MaxShots == 4

\* The programs fix shots to a literal (8192 in main, 4096 in the sweeps); a
\* histogram of that many shots cannot be enumerated, so the literal is
\* replaced by every value in 1..MaxSweepShots, and in the ten-point noise
\* sweep by every value in 1..MaxNoiseSweepShots.
MaxSweepShots == 2
MaxNoiseSweepShots == 1

----------------------------------------------------------------------------
(* Arithmetic helpers *)

RECURSIVE Pow2(_)
Pow2(n) == IF n = 0 THEN 1 ELSE 2 * Pow2(n - 1)

Max(a, b) == IF a >= b THEN a ELSE b

\* all "0"/"1" sequences of length n
BitStrings(n) == [1..n -> {"0", "1"}]

Targets == UNION { BitStrings(n) : n \in 1..MaxBuildQubits }

Target101 == << "1", "0", "1" >>

----------------------------------------------------------------------------
(* Gates.  One record shape for every gate so that gate sequences compare. *)

GateX(q) == [g |-> "x", ctrl |-> << >>, q |-> q, c |-> -1]
GateH(q) == [g |-> "h", ctrl |-> << >>, q |-> q, c |-> -1]
GateCCX(c1, c2, t) == [g |-> "ccx", ctrl |-> << c1, c2 >>, q |-> t, c |-> -1]
GateMCX(ctrls, t) == [g |-> "mcx", ctrl |-> ctrls, q |-> t, c |-> -1]
GateBarrier == [g |-> "barrier", ctrl |-> << >>, q |-> -1, c |-> -1]
GateMeasure(q, c) == [g |-> "measure", ctrl |-> << >>, q |-> q, c |-> c]

\* list(range(n)): the sequence 0, 1, ..., n-1
Range(n) == [i \in 1..n |-> i - 1]

----------------------------------------------------------------------------
(* Circuit builders *)

\* for i, bit in enumerate(target_bitstring): if bit == '0': oracle.x(i)
RECURSIVE XFlipsFrom(_, _)
XFlipsFrom(t, i) ==
    IF i >= Len(t) THEN << >>
    ELSE (IF t[i + 1] = "0" THEN << GateX(i) >> ELSE << >>) \o XFlipsFrom(t, i + 1)

XFlips(t) == XFlipsFrom(t, 0)

\* a multi-controlled X whose controls are range(n): the target is one of them
OracleMCXControlsAll(n) == GateMCX(Range(n), n - 1)

\* the multi-controlled X of the oracle: ccx(0, 1, 2) when n = 3, else
\* mcx(list(range(n-1)), n-1)
OracleMCX(n) ==
    IF n = 3 THEN GateCCX(0, 1, 2) ELSE GateMCX(Range(n - 1), n - 1)

\* get_grover_oracle without the second loop that undoes the X gates
get_grover_oracle_no_uncompute(t) ==
    LET n == Len(t)
    IN  XFlips(t) \o << GateH(n - 1) >> \o << OracleMCX(n) >>
                  \o << GateH(n - 1) >>

\* get_grover_oracle with the X gates put on the '1' bits
get_grover_oracle_flip_ones(t) ==
    LET n == Len(t)
        inv == [i \in 1..n |-> IF t[i] = "0" THEN "1" ELSE "0"]
    IN  XFlips(inv) \o << GateH(n - 1) >> \o << OracleMCX(n) >>
                    \o << GateH(n - 1) >> \o XFlips(inv)

get_grover_oracle(t) ==
    LET n == Len(t)
    IN  XFlips(t) \o << GateH(n - 1) >> \o << OracleMCX(n) >>
                  \o << GateH(n - 1) >> \o XFlips(t)

\* create_oracle_for_101 without its two X gates on qubit 1
create_oracle_for_101_no_x ==
    << GateH(2), GateCCX(0, 1, 2), GateH(2) >>

create_oracle_for_101 ==
    << GateX(1), GateH(2), GateCCX(0, 1, 2), GateH(2), GateX(1) >>

\* qc.h(range(n))
HLayer(n) == [i \in 1..n |-> GateH(i - 1)]

XLayer(n) == [i \in 1..n |-> GateX(i - 1)]

\* measure with the classical bits in reverse order
MeasureAllReversed(n) == [i \in 1..n |-> GateMeasure(i - 1, n - i)]

\* qc.measure(range(n), range(n)): qubit i into classical bit i
MeasureAll(n) == [i \in 1..n |-> GateMeasure(i - 1, i - 1)]

\* Inversion about the mean, the second half of the library's
\* grover_operator(oracle): H on all qubits, phase flip of the all-zero
\* state (X on all, H-MCX-H on the last qubit, X on all), H on all qubits.
\* The operator's global phase is left out; no probability depends on it.
Diffusion(n) ==
    HLayer(n) \o XLayer(n)
        \o << GateH(n - 1), GateMCX(Range(n - 1), n - 1), GateH(n - 1) >>
        \o XLayer(n) \o HLayer(n)

\* grover_operator(oracle): the oracle, then the diffusion
grover_operator(orc, n) == orc \o Diffusion(n)

----------------------------------------------------------------------------
(* Iteration count *)

\* np.pi as a fraction, exact to 3e-7: far below the distance of
\* pi/4 * sqrt(2^n) to the nearest half-integer for every n modelled
PiNum == 355
PiDen == 113

\* int(...) applied without np.round: truncation
optimal_iterations_truncated(n) ==
    CHOOSE j \in 0..Pow2((n + 1) \div 2) :
        /\ 4 * j * 4 * j * PiDen * PiDen <= PiNum * PiNum * Pow2(n)
        /\ PiNum * PiNum * Pow2(n) < (4 * j + 4) * (4 * j + 4) * PiDen * PiDen

\* int(np.round(np.pi / 4 * np.sqrt(2**n))): the integer j with
\* j - 1/2 <= pi/4 * sqrt(2^n) < j + 1/2, i.e.
\* (4j - 2)^2 <= pi^2 * 2^n < (4j + 2)^2   (both sides are >= 0 for j >= 1;
\* for j = 0 only the upper comparison applies)
optimal_iterations(n) ==
    CHOOSE j \in 0..Pow2((n + 1) \div 2) :
        /\ (j >= 1 => (4 * j - 2) * (4 * j - 2) * PiDen * PiDen
                          <= PiNum * PiNum * Pow2(n))
        /\ PiNum * PiNum * Pow2(n)
               < (4 * j + 2) * (4 * j + 2) * PiDen * PiDen

\* num_iterations = 2 in main.create_grover_circuit and the range(2) loop of
\* bloch_animation.get_grover_iteration_states
num_iterations == 2

----------------------------------------------------------------------------
(* Exact state-vector evolution *)

Bit(j, q) == (j \div Pow2(q)) % 2

Flip(j, q) == IF Bit(j, q) = 1 THEN j - Pow2(q) ELSE j + Pow2(q)

BasisState(n, b) == [j \in 0..(Pow2(n) - 1) |-> IF j = b THEN 1 ELSE 0]

\* Pauli-X on qubit q
ApplyX(v, q) == [j \in DOMAIN v |-> v[Flip(j, q)]]

\* X on qubit t where every control qubit is 1
ApplyMCX(v, ctrls, t) ==
    [j \in DOMAIN v |->
        IF \A i \in 1..Len(ctrls) : Bit(j, ctrls[i]) = 1
        THEN v[Flip(j, t)] ELSE v[j]]

\* Hadamard on qubit q, without its 1/sqrt(2)
ApplyH(v, q) ==
    [j \in DOMAIN v |->
        IF Bit(j, q) = 0 THEN v[j] + v[Flip(j, q)]
                         ELSE v[Flip(j, q)] - v[j]]

\* cancel pairs of 1/sqrt(2) against a common factor 2
RECURSIVE Normalize(_, _)
Normalize(v, e) ==
    IF e >= 2 /\ \A j \in DOMAIN v : v[j] % 2 = 0
    THEN Normalize([j \in DOMAIN v |-> v[j] \div 2], e - 2)
    ELSE [psi |-> v, hexp |-> e]

\* the state after one gate
ApplyGate(gate, v, e) ==
    CASE gate.g = "x"   -> [psi |-> ApplyX(v, gate.q), hexp |-> e]
      [] gate.g = "h"   -> Normalize(ApplyH(v, gate.q), e + 1)
      [] gate.g = "ccx" -> [psi |-> ApplyMCX(v, gate.ctrl, gate.q), hexp |-> e]
      [] gate.g = "mcx" -> [psi |-> ApplyMCX(v, gate.ctrl, gate.q), hexp |-> e]
      [] OTHER          -> [psi |-> v, hexp |-> e]

----------------------------------------------------------------------------
(* The circuit machine *)

OracleFuncs == { "get_grover_oracle", "create_oracle_for_101" }

SearchFuncs == { "build_grover_circuit", "create_grover_circuit_nqubit",
                 "create_grover_circuit" }

\* functions whose target is written into their body
FixedTargetFuncs == { "create_oracle_for_101", "create_grover_circuit" }

\* the circuit a run executes
Prog == IF func \in OracleFuncs THEN oracle ELSE qc

\* the oracle each function builds
OracleOf(f, t) ==
    IF f \in FixedTargetFuncs THEN create_oracle_for_101
    ELSE get_grover_oracle(t)

\* the iteration count each search-circuit builder composes
IterationsOf(f, n) ==
    IF f = "create_grover_circuit" THEN num_iterations
    ELSE optimal_iterations(n)

\* no program is running
NoSweep ==
    /\ program = "none"
    /\ idx = 0
    /\ results = << >>
    /\ best_backend = "None"
    /\ best_fidelity = [kind |-> "none", num |-> << >>, den |-> 0]
    /\ noise_model = << >>
    /\ calls = << >>
    /\ ideal_runs = 0
    /\ summary = << >>

NoFidelity ==
    /\ ideal_counts = << >>
    /\ noisy_counts = << >>
    /\ shots = 0
    /\ outcome = [kind |-> "none", num |-> << >>, den |-> 0]

InitCircuits ==
    /\ func \in OracleFuncs \cup SearchFuncs
    /\ target \in (IF func \in FixedTargetFuncs THEN { Target101 } ELSE Targets)
    /\ nqubits = 0
    /\ nclbits = 0
    /\ qc = << >>
    /\ oracle = << >>
    /\ grover_op = << >>
    /\ k = 0
    /\ iter = 0
    /\ pc = "start"
    /\ psi = << >>
    /\ hexp = 0
    /\ ip = 0
    /\ input = 0
    /\ passes = 0
    /\ NoFidelity
    /\ NoSweep

\* get_grover_oracle(target) / create_oracle_for_101() called on their own
BuildOracle ==
    /\ pc = "start"
    /\ func \in OracleFuncs
    /\ oracle' = OracleOf(func, target)
    /\ nqubits' = Len(target)
    /\ pc' = "oracle_built"
    /\ UNCHANGED << func, target, nclbits, qc, grover_op, k, iter, psi, hexp,
                    ip, input, passes >>
    /\ UNCHANGED fidelityVars
    /\ UNCHANGED sweepVars

\* qc = QuantumCircuit(n, n); qc.h(range(n)); qc.barrier()
InitCircuit ==
    /\ pc = "start"
    /\ func \in SearchFuncs
    /\ nqubits' = Len(target)
    /\ nclbits' = Len(target)
    /\ qc' = HLayer(Len(target)) \o << GateBarrier >>
    /\ pc' = "operator"
    /\ UNCHANGED << func, target, oracle, grover_op, k, iter, psi, hexp, ip,
                    input, passes >>
    /\ UNCHANGED fidelityVars
    /\ UNCHANGED sweepVars

\* oracle = ...; grover_op = grover_operator(oracle); the iteration count
BuildGroverOp ==
    /\ pc = "operator"
    /\ oracle' = OracleOf(func, target)
    /\ grover_op' = grover_operator(OracleOf(func, target), nqubits)
    /\ k' = IterationsOf(func, nqubits)
    /\ iter' = 0
    /\ pc' = "compose"
    /\ UNCHANGED << func, target, nqubits, nclbits, qc, psi, hexp, ip, input,
                    passes >>
    /\ UNCHANGED fidelityVars
    /\ UNCHANGED sweepVars

\* one pass of the loop: qc.compose(grover_op, inplace=True); qc.barrier()
ComposeIteration ==
    /\ pc = "compose"
    /\ iter < k
    /\ qc' = qc \o grover_op \o << GateBarrier >>
    /\ iter' = iter + 1
    /\ UNCHANGED << func, target, nqubits, nclbits, oracle, grover_op, k, pc,
                    psi, hexp, ip, input, passes >>
    /\ UNCHANGED fidelityVars
    /\ UNCHANGED sweepVars

\* after the loop: qc.measure(range(n), range(n)); return qc
Measure ==
    /\ pc = "compose"
    /\ iter >= k
    /\ qc' = qc \o MeasureAll(nqubits)
    /\ pc' = "built"
    /\ UNCHANGED << func, target, nqubits, nclbits, oracle, grover_op, k, iter,
                    psi, hexp, ip, input, passes >>
    /\ UNCHANGED fidelityVars
    /\ UNCHANGED sweepVars

\* the ideal simulator starts the built circuit from the all-zero state
StartIdealRun ==
    /\ pc = "built"
    /\ nqubits \in 2..MaxQubits
    /\ psi' = BasisState(nqubits, 0)
    /\ hexp' = 0
    /\ ip' = 1
    /\ pc' = "run"
    /\ UNCHANGED << func, target, nqubits, nclbits, qc, oracle, grover_op, k,
                    iter, input, passes >>
    /\ UNCHANGED fidelityVars
    /\ UNCHANGED sweepVars

\* the oracle circuit is started from one computational basis state
PrepareBasis ==
    /\ pc = "oracle_built"
    /\ nqubits \in 2..MaxQubits
    /\ \E b \in 0..(Pow2(nqubits) - 1) :
          /\ input' = b
          /\ psi' = BasisState(nqubits, b)
    /\ hexp' = 0
    /\ ip' = 1
    /\ passes' = 0
    /\ pc' = "run"
    /\ UNCHANGED << func, target, nqubits, nclbits, qc, oracle, grover_op, k,
                    iter >>
    /\ UNCHANGED fidelityVars
    /\ UNCHANGED sweepVars

\* the next gate of the running circuit acts on the state vector
Step ==
    /\ pc = "run"
    /\ ip <= Len(Prog)
    /\ LET next == ApplyGate(Prog[ip], psi, hexp)
       IN  /\ psi' = next.psi
           /\ hexp' = next.hexp
    /\ ip' = ip + 1
    /\ UNCHANGED << func, target, nqubits, nclbits, qc, oracle, grover_op, k,
                    iter, pc, input, passes >>
    /\ UNCHANGED fidelityVars
    /\ UNCHANGED sweepVars

\* the running circuit has no gate left
Finish ==
    /\ pc = "run"
    /\ ip > Len(Prog)
    /\ passes' = passes + 1
    /\ pc' = "done"
    /\ UNCHANGED << func, target, nqubits, nclbits, qc, oracle, grover_op, k,
                    iter, psi, hexp, ip, input >>
    /\ UNCHANGED fidelityVars
    /\ UNCHANGED sweepVars

\* the oracle is composed with itself: it runs again on its own output
Reapply ==
    /\ pc = "done"
    /\ func \in OracleFuncs
    /\ passes = 1
    /\ ip' = 1
    /\ pc' = "run"
    /\ UNCHANGED << func, target, nqubits, nclbits, qc, oracle, grover_op, k,
                    iter, psi, hexp, input, passes >>
    /\ UNCHANGED fidelityVars
    /\ UNCHANGED sweepVars

Next ==
    \/ BuildOracle
    \/ InitCircuit
    \/ BuildGroverOp
    \/ ComposeIteration
    \/ Measure
    \/ StartIdealRun
    \/ PrepareBasis
    \/ Step
    \/ Finish
    \/ Reapply

Spec == InitCircuits /\ [][Next]_vars

----------------------------------------------------------------------------
(* Exact values of the fidelity computation.                               *)
(*                                                                         *)
(* A value is [num, den]: the real number (SUM_r num[r] * sqrt(r)) / den,  *)
(* where num maps square-free radicands r to non-zero integer              *)
(* coefficients.  Square roots of distinct square-free integers are        *)
(* linearly independent over the rationals, so two values with the same    *)
(* den are equal exactly when their num are equal.                         *)

\* largest radicand: a product of two products of two counts
RadMax ==
    LET c == Max(MaxCount, MaxSweepShots)
    IN  c * c * c * c

\* largest c with c*c dividing m
SquarePartTable ==
    [m \in 1..RadMax |->
        CHOOSE c \in 1..m :
            /\ m % (c * c) = 0
            /\ \A e \in 1..m : m % (e * e) = 0 => e <= c]

SquarePart(m) == SquarePartTable[m]

\* m with its square part divided out
SquareFree(m) == m \div (SquarePart(m) * SquarePart(m))

RECURSIVE SumFn(_, _)
SumFn(f, S) ==
    IF S = {} THEN 0
    ELSE LET x == CHOOSE y \in S : TRUE
         IN  f[x] + SumFn(f, S \ {x})

\* drop the zero coefficients
Compact(f) == [r \in { x \in DOMAIN f : f[x] # 0 } |-> f[r]]

----------------------------------------------------------------------------
(* calculate_hellinger_fidelity *)

HistKeys == { "000", "101", "111" }

\* bitstring -> count dictionaries
Histograms == UNION { [D -> 0..MaxCount] : D \in SUBSET HistKeys }

\* counts.get(state, 1)
GetDefaultOne(counts, state) ==
    IF state \in DOMAIN counts THEN counts[state] ELSE 1

\* counts.get(state, 0)
Get(counts, state) ==
    IF state \in DOMAIN counts THEN counts[state] ELSE 0

\* set(ideal_counts.keys()) | set(noisy_counts.keys())
AllStates(a, b) == DOMAIN a \cup DOMAIN b

\* counts.get(state, 0) / shots, as a fraction
Prob(counts, state, shots_arg) == [num |-> Get(counts, state), den |-> shots_arg]

\* p * q, the square root forgotten
SqrtOfProductNoSqrt(p, q) ==
    [coef |-> p.num * q.num, rad |-> 1, den |-> p.den * q.den]

\* np.sqrt(p * q) for two fractions over the same denominator:
\* sqrt(p.num * q.num) / p.den = coef * sqrt(rad) / p.den
SqrtOfProduct(p, q) ==
    LET m == p.num * q.num
    IN  IF m = 0 THEN [coef |-> 0, rad |-> 1, den |-> p.den]
        ELSE [coef |-> SquarePart(m), rad |-> SquareFree(m), den |-> p.den]

\* np.sqrt(ideal_probs[state] * ideal_probs[state])
TermIdealTwice(a, b, state, shots_arg) ==
    SqrtOfProduct(Prob(a, state, shots_arg), Prob(a, state, shots_arg))

\* np.sqrt(ideal_probs[state] * noisy_probs[state])
Term(a, b, state, shots_arg) ==
    SqrtOfProduct(Prob(a, state, shots_arg), Prob(b, state, shots_arg))

\* sum(np.sqrt(ideal_probs[state] * noisy_probs[state]) for state in all_states)
HellingerSum(a, b, shots_arg) ==
    LET all_states == AllStates(a, b)
        terms == [state \in all_states |-> Term(a, b, state, shots_arg)]
        rads == { terms[state].rad : state \in all_states }
    IN  [num |-> Compact([r \in rads |->
                     SumFn([state \in all_states |->
                               IF terms[state].rad = r THEN terms[state].coef ELSE 0],
                           all_states)]),
         den |-> terms[CHOOSE state \in all_states : TRUE].den]

\* hellinger_sum * 2
Double(v) == [num |-> [r \in DOMAIN v.num |-> 2 * v.num[r]], den |-> v.den]

\* hellinger_sum ** 2
Square(v) ==
    LET supp == DOMAIN v.num
        pairs == supp \X supp
        rads == { SquareFree(pr[1] * pr[2]) : pr \in pairs }
    IN  [num |-> Compact([r \in rads |->
                     SumFn([pr \in pairs |->
                               IF SquareFree(pr[1] * pr[2]) = r
                               THEN v.num[pr[1]] * v.num[pr[2]] * SquarePart(pr[1] * pr[2])
                               ELSE 0],
                           pairs)]),
         den |-> v.den * v.den]

ZeroDivisionError == [kind |-> "ZeroDivisionError", num |-> << >>, den |-> 0]

Returned(v) == [kind |-> "value", num |-> v.num, den |-> v.den]

\* The divisions by shots run once per state of all_states: with shots = 0
\* the first one raises; with no state at all nothing is divided, the sum
\* over nothing is the integer 0 and 0 ** 2 = 0 is returned.
calculate_hellinger_fidelity(a, b, shots_arg) ==
    IF AllStates(a, b) = {}
    THEN Returned([num |-> << >>, den |-> 1])
    ELSE IF shots_arg = 0 THEN ZeroDivisionError
    ELSE Returned(Square(HellingerSum(a, b, shots_arg)))

\* counts.get('101', 0) / shots  (main.py lines 189, 191, 235, 236)
success_probability(counts, key, shots_arg) ==
    IF shots_arg = 0 THEN ZeroDivisionError
    ELSE Returned([num |-> Compact([r \in {1} |-> Get(counts, key)]),
                   den |-> shots_arg])

----------------------------------------------------------------------------
(* The fidelity machine *)

NoCircuit ==
    /\ target = << >>
    /\ nqubits = 0
    /\ nclbits = 0
    /\ qc = << >>
    /\ oracle = << >>
    /\ grover_op = << >>
    /\ k = 0
    /\ iter = 0
    /\ psi = << >>
    /\ hexp = 0
    /\ ip = 0
    /\ input = 0
    /\ passes = 0

InitFidelity ==
    /\ func \in { "calculate_hellinger_fidelity", "success_probability" }
    /\ ideal_counts \in Histograms
    /\ noisy_counts \in Histograms
    /\ shots \in 0..MaxShots
    /\ outcome = [kind |-> "none", num |-> << >>, den |-> 0]
    /\ pc = "call"
    /\ NoCircuit
    /\ NoSweep

\* fidelity = calculate_hellinger_fidelity(ideal_counts, noisy_counts, shots)
CallFidelity ==
    /\ pc = "call"
    /\ func = "calculate_hellinger_fidelity"
    /\ outcome' = calculate_hellinger_fidelity(ideal_counts, noisy_counts, shots)
    /\ pc' = "returned"
    /\ UNCHANGED << ideal_counts, noisy_counts, shots >>
    /\ UNCHANGED circuitVars
    /\ UNCHANGED sweepVars

\* ideal_counts.get('101', 0) / shots
CallSuccessProbability ==
    /\ pc = "call"
    /\ func = "success_probability"
    /\ outcome' = success_probability(ideal_counts, "101", shots)
    /\ pc' = "returned"
    /\ UNCHANGED << ideal_counts, noisy_counts, shots >>
    /\ UNCHANGED circuitVars
    /\ UNCHANGED sweepVars

NextFidelity ==
    \/ CallFidelity
    \/ CallSuccessProbability

SpecFidelity == InitFidelity /\ [][NextFidelity]_vars

----------------------------------------------------------------------------
(* Readout *)

\* index of the basis state a histogram key names: the key's rightmost
\* character is qubit 0 (the order of get_counts)
RECURSIVE KeyIndexFrom(_, _)
KeyIndexFrom(key, q) ==
    IF q >= Len(key) THEN 0
    ELSE (IF key[Len(key) - q] = "1" THEN Pow2(q) ELSE 0) + KeyIndexFrom(key, q + 1)

KeyIndex(key) == KeyIndexFrom(key, 0)

\* probability of reading `key` from the current state, as a fraction
ProbNum(key) == psi[KeyIndex(key)] * psi[KeyIndex(key)]
ProbDen == Pow2(hexp)

\* basis state j has qubit i equal to character i of t, for every i
Marked(t, j) ==
    \A i \in 0..(Len(t) - 1) : Bit(j, i) = (IF t[i + 1] = "1" THEN 1 ELSE 0)

IsGate(gate) == gate.g # "barrier"

\* a circuit without its barriers
NoBarriers(circ) == SelectSeq(circ, IsGate)

----------------------------------------------------------------------------
(* Properties of the circuit machine *)

\* C1: for every target t of length n >= 2, the oracle built for t maps each
\* computational basis state to itself; the amplitude keeps its sign except
\* on the one basis state whose qubit i holds t[i] for all i, where it
\* becomes -1; exactly one of the 2^n basis states is marked.
OracleFlipsOnlyTarget ==
    (pc = "done" /\ func \in OracleFuncs /\ passes = 1) =>
        /\ hexp = 0
        /\ \A j \in DOMAIN psi :
              psi[j] = IF j # input THEN 0
                       ELSE IF Marked(target, j) THEN -1 ELSE 1
        /\ Cardinality({ j \in DOMAIN psi : Marked(target, j) }) = 1

OracleFlipsOnlyTargetWitness ==
    /\ pc = "done"
    /\ func = "get_grover_oracle"
    /\ passes = 1
    /\ Len(target) = 4
    /\ target # << "1", "1", "1", "1" >>
    /\ Marked(target, input)
    /\ psi[input] = -1

\* C2: applying the oracle built for t twice in succession returns every
\* basis state to itself with its original sign.
OracleTwiceIsIdentity ==
    (pc = "done" /\ func \in OracleFuncs /\ passes = 2) =>
        /\ hexp = 0
        /\ psi = BasisState(nqubits, input)

OracleTwiceIsIdentityWitness ==
    /\ pc = "done"
    /\ func = "get_grover_oracle"
    /\ passes = 2
    /\ Marked(target, input)
    /\ psi[input] = 1

\* C3: the 3-qubit search circuit for '101' with k = 2 iterations yields
\* '101' with exact noise-free probability above 0.78 and at least 0.85.
IdealSuccess101 ==
    (pc = "done" /\ func \in SearchFuncs /\ target = Target101) =>
        /\ k = 2
        /\ ProbNum(Target101) * 100 > 78 * ProbDen
        /\ ProbNum(Target101) * 100 >= 85 * ProbDen

\* the exact value is 121/128
IdealSuccess101Witness ==
    /\ pc = "done"
    /\ func = "create_grover_circuit"
    /\ ProbNum(Target101) * 128 = 121 * ProbDen

\* r is the nearest integer to pi/4 * sqrt(2^n), certified with
\* 333/106 < pi < 355/113:  r - 1/2 <= (333/106)/4 * sqrt(2^n)  and
\* (355/113)/4 * sqrt(2^n) <= r + 1/2
IsNearestInteger(r, n) ==
    /\ r >= 1 => (4 * r - 2) * (4 * r - 2) * 106 * 106 <= 333 * 333 * Pow2(n)
    /\ 355 * 355 * Pow2(n) <= (4 * r + 2) * (4 * r + 2) * 113 * 113

\* C4: for every target of length n >= 1 the number of iterations composed
\* is k = max(1, round(pi/4 * sqrt(2^n))): the nearest integer to
\* pi/4 * sqrt(2^n) (2, 3, 4, 6 for n = 3, 4, 5, 6), never below 1; the
\* hard-coded count of main.create_grover_circuit is that value for n = 3.
IterationCountIsOptimal ==
    (func \in SearchFuncs /\ pc \in { "compose", "built", "run", "done" }) =>
        /\ \E r \in 0..Pow2(nqubits) :
              IsNearestInteger(r, nqubits) /\ k = Max(1, r)
        /\ IsNearestInteger(k, nqubits)
        /\ k >= 1
        /\ nqubits = 3 => k = 2
        /\ nqubits = 4 => k = 3
        /\ nqubits = 5 => k = 4
        /\ nqubits = 6 => k = 6
        /\ (pc # "compose" => iter = k)

IterationCountIsOptimalWitness ==
    /\ func = "build_grover_circuit"
    /\ pc = "built"
    /\ nqubits = 2
    /\ k = 2
    /\ iter = 2

\* C5: every search circuit is, in order: a Hadamard on each of the n
\* qubits, exactly k repetitions of the Grover operator (oracle, then
\* diffusion), and last a measurement of every qubit i into classical bit
\* i; nothing follows the measurements, no measurement precedes the last
\* iteration, and the circuit declares n qubits and n classical bits.
SearchCircuitOrder ==
    /\ (func \in SearchFuncs /\ pc \in { "built", "run", "done" }) =>
          LET n == Len(target)
              body == NoBarriers(qc)
              G == NoBarriers(grover_op)
              m == Len(G)
          IN  /\ nqubits = n
              /\ nclbits = n
              /\ G = OracleOf(func, target) \o Diffusion(n)
              /\ Len(body) = n + k * m + n
              /\ \A i \in 1..n : body[i] = GateH(i - 1)
              /\ \A r \in 0..(k - 1) : \A j \in 1..m : body[n + r * m + j] = G[j]
              /\ \A i \in 1..n : body[n + k * m + i] = GateMeasure(i - 1, i - 1)
    /\ (func \in SearchFuncs /\ pc \in { "operator", "compose" }) =>
          \A i \in 1..Len(qc) : qc[i].g # "measure"

SearchCircuitOrderWitness ==
    /\ func = "create_grover_circuit_nqubit"
    /\ pc = "built"
    /\ nqubits = 4
    /\ k = 3
    /\ qc[Len(qc)] = GateMeasure(3, 3)
    /\ qc[Len(qc) - 4].g = "barrier"

----------------------------------------------------------------------------
(* Comparing exact values *)

\* floor(sqrt(m)), by bisection between lo and hi (lo*lo <= m < hi*hi)
RECURSIVE ISqrtBetween(_, _, _)
ISqrtBetween(m, lo, hi) ==
    IF hi - lo <= 1 THEN lo
    ELSE LET mid == (lo + hi) \div 2
         IN  IF mid * mid <= m THEN ISqrtBetween(m, mid, hi)
             ELSE ISqrtBetween(m, lo, mid)

\* floor and ceiling of 1000 * sqrt(r)
SqrtLoTable == [r \in 1..RadMax |-> ISqrtBetween(r * 1000000, 0, 40000)]
SqrtLo(r) == SqrtLoTable[r]
SqrtHi(r) == IF SqrtLo(r) * SqrtLo(r) = r * 1000000 THEN SqrtLo(r) ELSE SqrtLo(r) + 1

\* integers below and above 1000 * (SUM_r num[r] * sqrt(r))
Lower(v) ==
    SumFn([r \in DOMAIN v.num |->
              v.num[r] * (IF v.num[r] >= 0 THEN SqrtLo(r) ELSE SqrtHi(r))],
          DOMAIN v.num)
Upper(v) ==
    SumFn([r \in DOMAIN v.num |->
              v.num[r] * (IF v.num[r] >= 0 THEN SqrtHi(r) ELSE SqrtLo(r))],
          DOMAIN v.num)

\* each is a proof of the comparison it names (v.den > 0)
ValueLeqOne(v) == Upper(v) <= 1000 * v.den
ValueGtOne(v) == Lower(v) > 1000 * v.den
ValueGeqZero(v) == Lower(v) >= 0
ValueGtZero(v) == Lower(v) > 0

\* sum(h.values())
Total(h) == SumFn(h, DOMAIN h)

FidelityReturned == pc = "returned" /\ func = "calculate_hellinger_fidelity"

----------------------------------------------------------------------------
(* Properties of the fidelity machine *)

\* C6 as stated: calculate_hellinger_fidelity(a, b, shots) is in [0, 1] for
\* every pair of histograms and every shots > 0.
FidelityInUnitInterval ==
    (FidelityReturned /\ shots > 0) =>
        /\ outcome.kind = "value"
        /\ ValueGeqZero(outcome)
        /\ ~ValueGtOne(outcome)

\* C6 amended: calculate_hellinger_fidelity(a, b, shots) is in [0, 1] for
\* every shots > 0 and every pair of histograms whose counts each sum to at
\* most shots (in particular to shots, as a histogram of that many shots does).
FidelityInUnitIntervalWithinShots ==
    (FidelityReturned /\ shots > 0
        /\ Total(ideal_counts) <= shots /\ Total(noisy_counts) <= shots) =>
        /\ outcome.kind = "value"
        /\ ValueGeqZero(outcome)
        /\ ValueLeqOne(outcome)

FidelityInUnitIntervalWitness ==
    /\ FidelityReturned
    /\ shots > 0
    /\ Total(ideal_counts) = shots
    /\ Total(noisy_counts) = shots
    /\ ideal_counts # noisy_counts
    /\ \E r \in DOMAIN outcome.num : r > 1
    /\ ValueGtZero(outcome)
    /\ ValueLeqOne(outcome)
    /\ ~(outcome.num = (1 :> outcome.den))

\* C7: for a histogram h with a positive count and shots = sum of h's
\* counts, calculate_hellinger_fidelity(h, h, shots) = 1.
FidelityOfSelfIsOne ==
    (FidelityReturned /\ ideal_counts = noisy_counts
        /\ shots = Total(ideal_counts)
        /\ \E state \in DOMAIN ideal_counts : ideal_counts[state] > 0) =>
        /\ outcome.kind = "value"
        /\ outcome.num = (1 :> outcome.den)

FidelityOfSelfIsOneWitness ==
    /\ FidelityReturned
    /\ ideal_counts = noisy_counts
    /\ shots = Total(ideal_counts)
    /\ Cardinality({ state \in DOMAIN ideal_counts : ideal_counts[state] > 0 }) >= 2
    /\ \E state \in DOMAIN ideal_counts : ideal_counts[state] = 0
    /\ outcome.num = (1 :> outcome.den)

\* C8: calculate_hellinger_fidelity(a, b, shots) =
\* calculate_hellinger_fidelity(b, a, shots) for all histograms a, b and all
\* shots > 0.
FidelityIsSymmetric ==
    (FidelityReturned /\ shots > 0) =>
        outcome = calculate_hellinger_fidelity(noisy_counts, ideal_counts, shots)

FidelityIsSymmetricWitness ==
    /\ FidelityReturned
    /\ shots > 0
    /\ Total(ideal_counts) # Total(noisy_counts)
    /\ DOMAIN ideal_counts # DOMAIN noisy_counts
    /\ \E r \in DOMAIN outcome.num : r > 1
    /\ outcome = calculate_hellinger_fidelity(noisy_counts, ideal_counts, shots)

\* a histogram with every key of HistKeys, the missing ones at count 0
Padded(h) == [state \in HistKeys |-> IF state \in DOMAIN h THEN h[state] ELSE 0]

\* C9: the sum ranges over the union of the observed bitstrings, a
\* bitstring missing from a histogram counts as probability 0 there, and
\* the fidelity is 0 whenever no bitstring has a positive count in both.
FidelityOfDisjointSupportsIsZero ==
    (FidelityReturned /\ shots > 0) =>
        /\ outcome.kind = "value"
        /\ AllStates(ideal_counts, noisy_counts) # {} =>
              outcome = calculate_hellinger_fidelity(
                            Padded(ideal_counts), Padded(noisy_counts), shots)
        /\ (\A state \in HistKeys :
               ~(Get(ideal_counts, state) > 0 /\ Get(noisy_counts, state) > 0))
              => outcome.num = << >>

FidelityOfDisjointSupportsIsZeroWitness ==
    /\ FidelityReturned
    /\ shots > 0
    /\ \E state \in DOMAIN ideal_counts :
          ideal_counts[state] > 0 /\ state \notin DOMAIN noisy_counts
    /\ \E state \in DOMAIN noisy_counts :
          noisy_counts[state] > 0 /\ state \notin DOMAIN ideal_counts
    /\ \A state \in HistKeys :
          ~(Get(ideal_counts, state) > 0 /\ Get(noisy_counts, state) > 0)
    /\ outcome.kind = "value"
    /\ outcome.num = << >>

\* C10: with shots = 0 the fidelity and the success-probability
\* computations end in an error for every pair of histograms, the empty
\* ones included; they never return a number.  (Any raised error is
\* accepted here as the configuration error.)
ShotsZeroNeverReturnsValue ==
    (pc = "returned" /\ shots = 0) => outcome.kind # "value"

\* every comparison above was decided
ComparisonsDecided ==
    (FidelityReturned /\ outcome.kind = "value" /\ outcome.den > 0) =>
        /\ ValueLeqOne(outcome) \/ ValueGtOne(outcome)
        /\ ValueGeqZero(outcome)


----------------------------------------------------------------------------
(* The programs: what they share *)

Programs == { "main", "run_experiment_1_noise_sweep",
              "run_experiment_2_topology", "scalability_study" }

\* op, barrier, op, barrier, ... : n passes of the composing loop
RECURSIVE Iterations(_, _)
Iterations(op, n) ==
    IF n <= 0 THEN << >>
    ELSE op \o << GateBarrier >> \o Iterations(op, n - 1)

\* the circuit a search-circuit builder f returns for target t
SearchCircuit(f, t) ==
    LET n == Len(t)
    IN  HLayer(n) \o << GateBarrier >>
            \o Iterations(grover_operator(OracleOf(f, t), n), IterationsOf(f, n))
            \o MeasureAll(n)

RECURSIVE Zeros(_)
Zeros(n) == IF n = 0 THEN << >> ELSE << "0" >> \o Zeros(n - 1)

\* t with its first character flipped
FlipFirst(t) == [i \in 1..Len(t) |->
                    IF i = 1 THEN (IF t[1] = "1" THEN "0" ELSE "1") ELSE t[i]]

\* the bitstrings the modelled runs can read: the target and two others
SweepKeys(t) == { t, Zeros(Len(t)), FlipFirst(t) }

\* get_counts() of a run of s shots: the bitstrings read at least once, each
\* with the number of times it was read
SampledHistograms(t, s) ==
    { h \in UNION { [D -> 1..s] : D \in (SUBSET SweepKeys(t)) \ { {} } } :
        Total(h) = s }

\* run_ideal_simulation(circuit, shots): job = simulator.run(.., shots=shots)
run_ideal_simulation(t, shots_arg) == SampledHistograms(t, shots_arg)

\* a run that takes one shot fewer than it was asked for
run_noisy_simulation_drops_a_shot(t, shots_arg) ==
    SampledHistograms(t, Max(1, shots_arg - 1))

\* run_noisy_simulation(circuit, shots): job = simulator.run(.., shots=shots)
run_noisy_simulation(t, shots_arg) == SampledHistograms(t, shots_arg)

\* sampler.run([circuit], shots=shots) ... get_counts()
SamplerRun(t, shots_arg) == SampledHistograms(t, shots_arg)

\* simulator.run(circuit, shots=shots).result().get_counts()
SimulatorRun(t, shots_arg) == SampledHistograms(t, shots_arg)

\* one call of calculate_hellinger_fidelity: its three arguments
CallRecord(a, b, shots_arg) == [ideal |-> a, noisy |-> b, shots |-> shots_arg]

\* the float -1.0
MinusOne == [kind |-> "value", num |-> (1 :> (0 - 1)), den |-> 1]

Coef(v, r) == IF r \in DOMAIN v.num THEN v.num[r] ELSE 0

\* v - w, over the product of the denominators
Diff(v, w) ==
    [num |-> Compact([r \in DOMAIN v.num \cup DOMAIN w.num |->
                         Coef(v, r) * w.den - Coef(w, r) * v.den]),
     den |-> v.den * w.den]

\* v >= w
GreaterOrEqual(v, w) == Upper(Diff(v, w)) >= 0

\* v > w
Greater(v, w) == Lower(Diff(v, w)) > 0

\* the sign of v - w is settled by the bounds on the square roots
Decided(v, w) ==
    \/ Diff(v, w).num = << >>
    \/ Lower(Diff(v, w)) > 0
    \/ Upper(Diff(v, w)) < 0

\* list.append(e)
ListPrepend(list, e) == << e >> \o list
ListAppend(list, e) == Append(list, e)

\* d[key] = val on a dictionary kept in insertion order
DictSet(d, key, val) ==
    IF \E i \in 1..Len(d) : d[i].key = key
    THEN [i \in 1..Len(d) |->
             IF d[i].key = key THEN [key |-> key, val |-> val] ELSE d[i]]
    ELSE Append(d, [key |-> key, val |-> val])

\* the variables of the circuit machine the programs leave alone
notInSweeps == << func, nqubits, nclbits, oracle, grover_op, k, iter, psi,
                  hexp, ip, input, passes >>

InitSweeps ==
    /\ program \in Programs
    /\ pc = "start"
    /\ func = "none"
    /\ target = << >>
    /\ nqubits = 0
    /\ nclbits = 0
    /\ qc = << >>
    /\ oracle = << >>
    /\ grover_op = << >>
    /\ k = 0
    /\ iter = 0
    /\ psi = << >>
    /\ hexp = 0
    /\ ip = 0
    /\ input = 0
    /\ passes = 0
    /\ NoFidelity
    /\ idx = 0
    /\ results = << >>
    /\ best_backend = "None"
    /\ best_fidelity = [kind |-> "none", num |-> << >>, den |-> 0]
    /\ noise_model = << >>
    /\ calls = << >>
    /\ ideal_runs = 0
    /\ summary = << >>


----------------------------------------------------------------------------
(* run_experiment_2_topology *)

Target1011 == << "1", "0", "1", "1" >>

\* backends.items(), in the order the dictionary was written
Backends == << "FakeBrisbane", "FakeKyoto", "FakeSherbrooke" >>

\* everything before the loop: the circuit, the empty dictionary, the ideal
\* reference run and the initial best
StartTopologySweep ==
    /\ program = "run_experiment_2_topology"
    /\ pc = "start"
    /\ target' = Target1011
    /\ qc' = SearchCircuit("build_grover_circuit", Target1011)
    /\ results' = << >>
    /\ \E s \in 1..MaxSweepShots :
          /\ shots' = s
          /\ ideal_counts' \in SamplerRun(Target1011, s)
    /\ ideal_runs' = ideal_runs + 1
    /\ best_backend' = "None"
    /\ best_fidelity' = MinusOne
    /\ pc' = "loop"
    /\ UNCHANGED << noisy_counts, outcome, program, idx, noise_model, calls,
                    summary >>
    /\ UNCHANGED notInSweeps

\* the loop body with the ideal reference run moved into it
TopologyIterationRerunsIdeal ==
    /\ program = "run_experiment_2_topology"
    /\ pc = "loop"
    /\ idx < Len(Backends)
    /\ \E a \in SamplerRun(target, shots), h \in SamplerRun(target, shots) :
          LET name == Backends[idx + 1]
              fid == calculate_hellinger_fidelity(a, h, shots)
          IN  /\ ideal_counts' = a
              /\ noisy_counts' = h
              /\ outcome' = fid
              /\ calls' = Append(calls, CallRecord(a, h, shots))
              /\ results' = DictSet(results, name, fid)
              /\ IF Greater(fid, best_fidelity)
                 THEN best_fidelity' = fid /\ best_backend' = name
                 ELSE UNCHANGED << best_fidelity, best_backend >>
    /\ ideal_runs' = ideal_runs + 1
    /\ idx' = idx + 1
    /\ UNCHANGED << pc, target, qc, shots, program, noise_model, summary >>
    /\ UNCHANGED notInSweeps

\* one pass of the loop over the backends.  transpile, from_backend and the
\* sampler run can raise; nothing in the function catches what they raise.
TopologyIteration ==
    /\ program = "run_experiment_2_topology"
    /\ pc = "loop"
    /\ idx < Len(Backends)
    /\ \E raised \in BOOLEAN :
          IF raised
          THEN /\ pc' = "aborted"
               /\ UNCHANGED << noisy_counts, outcome, calls, results,
                               best_fidelity, best_backend, idx >>
          ELSE \E h \in SamplerRun(target, shots) :
                  LET name == Backends[idx + 1]
                      fid == calculate_hellinger_fidelity(ideal_counts, h, shots)
                  IN  /\ noisy_counts' = h
                      /\ outcome' = fid
                      /\ calls' = Append(calls, CallRecord(ideal_counts, h, shots))
                      /\ results' = DictSet(results, name, fid)
                      /\ IF Greater(fid, best_fidelity)
                         THEN best_fidelity' = fid /\ best_backend' = name
                         ELSE UNCHANGED << best_fidelity, best_backend >>
                      /\ idx' = idx + 1
                      /\ pc' = "loop"
    /\ UNCHANGED << target, qc, shots, ideal_counts, ideal_runs, program,
                    noise_model, summary >>
    /\ UNCHANGED notInSweeps

\* after the loop: best_topology.txt
WriteBestTopology ==
    /\ program = "run_experiment_2_topology"
    /\ pc = "loop"
    /\ idx >= Len(Backends)
    /\ summary' = << best_backend, best_fidelity, target >>
    /\ pc' = "done"
    /\ UNCHANGED << target, qc, results, best_backend, best_fidelity, program,
                    idx, noise_model, calls, ideal_runs >>
    /\ UNCHANGED fidelityVars
    /\ UNCHANGED notInSweeps


----------------------------------------------------------------------------
(* main *)

\* grover_circuit = create_grover_circuit(); shots = 8192
StartMain ==
    /\ program = "main"
    /\ pc = "start"
    /\ target' = Target101
    /\ qc' = SearchCircuit("create_grover_circuit", Target101)
    /\ \E s \in 1..MaxSweepShots : shots' = s
    /\ pc' = "loop"
    /\ UNCHANGED << ideal_counts, noisy_counts, outcome >>
    /\ UNCHANGED sweepVars
    /\ UNCHANGED notInSweeps

\* the two simulations and the fidelity of their histograms
MainRun ==
    /\ program = "main"
    /\ pc = "loop"
    /\ idx = 0
    /\ \E a \in run_ideal_simulation(target, shots),
          h \in run_noisy_simulation(target, shots) :
          /\ ideal_counts' = a
          /\ noisy_counts' = h
          /\ outcome' = calculate_hellinger_fidelity(a, h, shots)
          /\ calls' = Append(calls, CallRecord(a, h, shots))
    /\ ideal_runs' = ideal_runs + 1
    /\ idx' = 1
    /\ UNCHANGED << pc, target, qc, shots, program, results, best_backend,
                    best_fidelity, noise_model, summary >>
    /\ UNCHANGED notInSweeps

\* save_results_to_csv(ideal_counts, noisy_counts, fidelity, shots)
MainSave ==
    /\ program = "main"
    /\ pc = "loop"
    /\ idx = 1
    /\ summary' = << outcome,
                     success_probability(ideal_counts, target, shots),
                     success_probability(noisy_counts, target, shots) >>
    /\ pc' = "done"
    /\ UNCHANGED << target, qc, program, idx, results, best_backend,
                    best_fidelity, noise_model, calls, ideal_runs >>
    /\ UNCHANGED fidelityVars
    /\ UNCHANGED notInSweeps

----------------------------------------------------------------------------
(* run_experiment_1_noise_sweep *)

\* len(error_rates); a rate is named by its position 1..NumErrorRates
NumErrorRates == 10

\* depolarizing_error(error_rate, num_qubits)
depolarizing_error(rate, num_qubits) == [rate |-> rate, qubits |-> num_qubits]

\* NoiseModel.add_all_qubit_quantum_error(error, instructions): an
\* instruction that already has an error gets the new one composed onto it
add_all_qubit_quantum_error(nm, error, instructions) ==
    [name \in DOMAIN nm \cup instructions |->
        IF name \in instructions
        THEN (IF name \in DOMAIN nm THEN Append(nm[name], error) ELSE << error >>)
        ELSE nm[name]]

\* the noise model the loop body builds for one error rate
BuildNoiseModel(rate) ==
    LET error_1q == depolarizing_error(rate, 1)
        error_2q == depolarizing_error(rate, 2)
        broad == add_all_qubit_quantum_error(<< >>, error_1q,
                     { "u", "u1", "u2", "u3", "rz", "sx", "x", "h" })
        with_u == add_all_qubit_quantum_error(broad, error_1q, { "u" })
    IN  add_all_qubit_quantum_error(with_u, error_2q, { "cx" })

\* everything before the loop
StartNoiseSweep ==
    /\ program = "run_experiment_1_noise_sweep"
    /\ pc = "start"
    /\ target' = Target101
    /\ qc' = SearchCircuit("build_grover_circuit", Target101)
    /\ results' = << >>
    /\ \E s \in 1..MaxNoiseSweepShots : shots' = s
    /\ pc' = "loop"
    /\ UNCHANGED << ideal_counts, noisy_counts, outcome, program, idx,
                    best_backend, best_fidelity, noise_model, calls,
                    ideal_runs, summary >>
    /\ UNCHANGED notInSweeps

\* one pass of the loop over error_rates; counts is local to the pass.  The
\* entry's key is the position of the rate that produced it; the list itself
\* stores only the value.
NoiseIteration ==
    /\ program = "run_experiment_1_noise_sweep"
    /\ pc = "loop"
    /\ idx < NumErrorRates
    /\ noise_model' = BuildNoiseModel(idx + 1)
    /\ \E counts \in SamplerRun(target, shots) :
          results' = ListAppend(results,
                        [key |-> idx + 1,
                         val |-> success_probability(counts, target, shots)])
    /\ idx' = idx + 1
    /\ UNCHANGED << pc, target, qc, program, best_backend, best_fidelity, calls,
                    ideal_runs, summary >>
    /\ UNCHANGED fidelityVars
    /\ UNCHANGED notInSweeps

\* after the loop: the plot of success_probs against error_rates
FinishNoiseSweep ==
    /\ program = "run_experiment_1_noise_sweep"
    /\ pc = "loop"
    /\ idx >= NumErrorRates
    /\ summary' = results
    /\ pc' = "done"
    /\ UNCHANGED << target, qc, program, idx, results, best_backend,
                    best_fidelity, noise_model, calls, ideal_runs >>
    /\ UNCHANGED fidelityVars
    /\ UNCHANGED notInSweeps


----------------------------------------------------------------------------
(* scalability_study *)

\* the names main.py binds at module level
MainExports == { "create_oracle_for_101", "create_grover_circuit",
                 "run_ideal_simulation", "run_noisy_simulation",
                 "calculate_hellinger_fidelity", "save_results_to_csv", "main" }

\* from main import get_grover_oracle, calculate_hellinger_fidelity
ImportedFromMain == { "get_grover_oracle", "calculate_hellinger_fidelity" }

\* for n in [3, 4, 5, 6]
QubitCounts == << 3, 4, 5, 6 >>

\* '1' * n
RECURSIVE Ones(_)
Ones(n) == IF n = 0 THEN << >> ELSE << "1" >> \o Ones(n - 1)

\* create_grover_circuit_nqubit(n, target_bitstring): (qc, k_optimal)
create_grover_circuit_nqubit(n, t) ==
    [qc |-> SearchCircuit("create_grover_circuit_nqubit", t),
     k_optimal |-> optimal_iterations(n)]

\* the import statement at the top of the module: a name main.py does not
\* bind raises ImportError, and the module has no handler for it
ImportFromMain ==
    IF ImportedFromMain \subseteq MainExports
    THEN /\ results' = << >>
         /\ \E s \in 1..MaxSweepShots : shots' = s
         /\ pc' = "loop"
    ELSE /\ pc' = "ImportError"
         /\ UNCHANGED << results, shots >>

\* one pass of the loop over the qubit counts
ScalabilityIteration ==
    LET n == QubitCounts[idx + 1]
        built == create_grover_circuit_nqubit(n, Ones(n))
    IN  /\ target' = Ones(n)
        /\ qc' = built.qc
        /\ \E a \in SimulatorRun(Ones(n), shots), h \in SimulatorRun(Ones(n), shots) :
              LET fid == calculate_hellinger_fidelity(a, h, shots)
              IN  /\ ideal_counts' = a
                  /\ noisy_counts' = h
                  /\ outcome' = fid
                  /\ calls' = Append(calls, CallRecord(a, h, shots))
                  /\ results' = ListAppend(results,
                        [n_qubits |-> n,
                         N_states |-> Pow2(n),
                         target |-> Ones(n),
                         k_optimal |-> built.k_optimal,
                         ideal_success |-> success_probability(a, Ones(n), shots),
                         noisy_success |-> success_probability(h, Ones(n), shots),
                         fidelity |-> fid])
        /\ ideal_runs' = ideal_runs + 1
        /\ idx' = idx + 1
        /\ UNCHANGED << pc, shots, summary >>

\* after the loop: the CSV file of the records
SaveScalability ==
    /\ summary' = results
    /\ pc' = "done"
    /\ UNCHANGED << target, qc, results, idx, calls, ideal_runs >>
    /\ UNCHANGED fidelityVars

\* the script, from its import statement on
ScalabilityStudy ==
    /\ program = "scalability_study"
    /\ pc \in { "start", "loop" }
    /\ IF pc = "start"
       THEN /\ ImportFromMain
            /\ UNCHANGED << target, qc, ideal_counts, noisy_counts, outcome,
                            idx, calls, ideal_runs, summary >>
       ELSE IF idx < Len(QubitCounts) THEN ScalabilityIteration
       ELSE SaveScalability
    /\ UNCHANGED << program, best_backend, best_fidelity, noise_model >>
    /\ UNCHANGED notInSweeps

----------------------------------------------------------------------------
(* The programs, run *)

NextSweeps ==
    \/ StartMain
    \/ MainRun
    \/ MainSave
    \/ StartNoiseSweep
    \/ NoiseIteration
    \/ FinishNoiseSweep
    \/ StartTopologySweep
    \/ TopologyIteration
    \/ WriteBestTopology
    \/ ScalabilityStudy

SpecSweeps == InitSweeps /\ [][NextSweeps]_vars

\* the comparisons made on the fidelities of the topology sweep are settled
\* by the bounds on the square roots
SweepComparisonsDecided ==
    \A i \in 1..Len(results) :
        program = "run_experiment_2_topology" =>
            /\ Decided(results[i].val, MinusOne)
            /\ \A j \in 1..Len(results) : Decided(results[i].val, results[j].val)


----------------------------------------------------------------------------
(* Properties of the programs *)

TopologySweepRunning ==
    /\ program = "run_experiment_2_topology"
    /\ pc \in { "loop", "aborted", "done" }

\* C11: in the topology sweep, after any prefix of the topologies has been
\* processed, best_fidelity is the largest fidelity recorded so far and
\* best_backend is the first topology that reached it (every earlier one is
\* strictly below it, no later one is above it); before the first topology
\* the best is None with fidelity -1.0; the summary names that topology.
BestIsFirstMaximum ==
    TopologySweepRunning =>
        /\ results = << >> => (best_backend = "None" /\ best_fidelity = MinusOne)
        /\ results # << >> =>
              \E b \in 1..Len(results) :
                  /\ best_backend = results[b].key
                  /\ best_fidelity = results[b].val
                  /\ \A j \in 1..Len(results) :
                        Lower(Diff(best_fidelity, results[j].val)) >= 0
                  /\ \A j \in 1..(b - 1) :
                        Lower(Diff(best_fidelity, results[j].val)) > 0
        /\ pc = "done" => (summary[1] = best_backend /\ summary[2] = best_fidelity)

\* the sweep has ended, the first and the last topology tie at the maximum
\* and the one between them is strictly below: the first one is selected
BestIsFirstMaximumWitness ==
    /\ program = "run_experiment_2_topology"
    /\ pc = "done"
    /\ Len(results) = 3
    /\ results[1].val = results[3].val
    /\ Lower(Diff(results[1].val, results[2].val)) > 0
    /\ Lower(Diff(results[2].val, MinusOne)) > 0
    /\ best_backend = "FakeBrisbane"


\* C12: when the rewrite or the run of one topology fails, the topology
\* sweep is not aborted: it goes on to the remaining topologies and writes
\* the best-topology summary.
TopologyFailureIsSkipped ==
    program = "run_experiment_2_topology" => pc # "aborted"


----------------------------------------------------------------------------
(* The builders on a malformed target *)

\* strings of 1..MaxQubits characters with a character that is neither '0'
\* nor '1'.  The empty string is left out: what the builders do with it is
\* decided inside the circuit library (h(-1) on a circuit of no qubits).
MalformedTargets ==
    { t \in UNION { [1..n -> { "0", "1", "a" }] : n \in 1..MaxQubits } :
        \E i \in 1..Len(t) : t[i] = "a" }

\* get_grover_oracle(target) / build_grover_circuit(target) of
\* hardware_stress_test.py, called with a malformed target
InitMalformed ==
    /\ func \in { "get_grover_oracle", "build_grover_circuit" }
    /\ target \in MalformedTargets
    /\ nqubits = 0
    /\ nclbits = 0
    /\ qc = << >>
    /\ oracle = << >>
    /\ grover_op = << >>
    /\ k = 0
    /\ iter = 0
    /\ pc = "start"
    /\ psi = << >>
    /\ hexp = 0
    /\ ip = 0
    /\ input = 0
    /\ passes = 0
    /\ NoFidelity
    /\ NoSweep

NextMalformed ==
    \/ BuildOracle
    \/ InitCircuit
    \/ BuildGroverOp
    \/ ComposeIteration
    \/ Measure

SpecMalformed == InitMalformed /\ [][NextMalformed]_vars

\* C13: a builder called with a malformed target adds no gate to any
\* circuit and returns no circuit.
MalformedTargetIsRejected ==
    target \in MalformedTargets =>
        /\ qc = << >>
        /\ oracle = << >>
        /\ pc \notin { "oracle_built", "built" }


----------------------------------------------------------------------------
(* Properties of the programs, continued *)

\* C14: once the qubit-count sweep has stopped it has produced exactly one
\* record per n in [3, 4, 5, 6], in that order, each with n_qubits = n,
\* N_states = 2^n and target = the all-ones string of length n.
ScalabilityYieldsOneRecordPerN ==
    (program = "scalability_study" /\ pc \notin { "start", "loop" }) =>
        /\ Len(results) = 4
        /\ \A i \in 1..Len(results) :
              /\ results[i].n_qubits = i + 2
              /\ results[i].N_states = Pow2(i + 2)
              /\ results[i].target = [j \in 1..(i + 2) |-> "1"]


Sweeps == { "run_experiment_1_noise_sweep", "run_experiment_2_topology",
            "scalability_study" }

\* the i-th point of the running sweep
SweepPoint(i) ==
    IF program = "run_experiment_1_noise_sweep" THEN i
    ELSE IF program = "run_experiment_2_topology" THEN Backends[i]
    ELSE QubitCounts[i]

\* the sweep point an entry of the results collection was made for
EntryPoint(e) == IF program = "scalability_study" THEN e.n_qubits ELSE e.key

\* one entry per completed sweep point, the i-th made for the i-th point
EntriesBelong ==
    program \in Sweeps =>
        /\ Len(results) = idx
        /\ \A i \in 1..Len(results) : EntryPoint(results[i]) = SweepPoint(i)

\* C15: in every sweep the results collection is append-only: a step of the
\* program leaves every entry already there unchanged and in place, a loop
\* iteration that completes adds exactly one entry and nothing else adds any,
\* so that the i-th entry is always the one made for the i-th sweep point.
ResultsAreAppendOnly ==
    [][ /\ \A i \in 1..Len(results) :
              i <= Len(results') /\ results'[i] = results[i]
        /\ Len(results') = Len(results) + (IF idx' = idx + 1 /\ program \in Sweeps
                                           THEN 1 ELSE 0)
        /\ EntriesBelong' ]_vars

\* the noise sweep has ended with its ten entries, the first made for the
\* first rate and the last for the tenth, and two of them differ
ResultsAreAppendOnlyWitness ==
    /\ program = "run_experiment_1_noise_sweep"
    /\ pc = "done"
    /\ Len(results) = NumErrorRates
    /\ results[1].key = 1
    /\ results[NumErrorRates].key = NumErrorRates
    /\ results[1].val # results[2].val


\* C16: in the topology sweep the ideal simulation has run exactly once from
\* the first topology on, and every fidelity computation made so far, one
\* per processed topology, was given that same ideal histogram, still
\* unmodified, and the same shot count.
IdealBaselineIsShared ==
    TopologySweepRunning =>
        /\ ideal_runs = 1
        /\ Len(calls) = idx
        /\ \A i \in 1..Len(calls) :
              /\ calls[i].ideal = ideal_counts
              /\ calls[i].shots = shots

\* the three topologies have been processed, on three different noisy
\* histograms all different from the ideal one
IdealBaselineIsSharedWitness ==
    /\ program = "run_experiment_2_topology"
    /\ pc = "done"
    /\ Len(calls) = 3
    /\ Cardinality({ calls[i].noisy : i \in 1..3 } \cup { ideal_counts }) = 4


----------------------------------------------------------------------------
(* Properties of the circuit machine, continued *)

\* C17: for every target t, the basis state whose sign the oracle built
\* from t flips is the basis state that the histogram key t names (the one
\* counts.get(t) looks up), and it is the outcome the search circuit built
\* from t makes most likely.
TargetKeyNamesMarkedState ==
    /\ (pc = "done" /\ func = "get_grover_oracle" /\ passes = 1
            /\ psi[input] = -1) =>
          input = KeyIndex(target)
    /\ (pc = "done" /\ func = "build_grover_circuit") =>
          \A j \in DOMAIN psi : psi[j] * psi[j] <= ProbNum(target)


\* the elements of a sequence
Elements(seq) == { seq[i] : i \in 1..Len(seq) }

MultiControlled(gate) == gate.g \in { "ccx", "mcx" }

\* C18: for every target of length n >= 2, every gate of the oracle built by
\* get_grover_oracle acts on qubits in 0..n-1 only; the oracle has one
\* multi-controlled X, its controls are exactly 0..n-2, all different, and
\* its target is n-1, which is not a control; at n = 3 the ccx emitted has
\* the controls and the target that mcx(range(n-1), n-1) has.
OracleGatesAreWellFormed ==
    (func \in { "get_grover_oracle", "build_grover_circuit" }
        /\ oracle # << >> /\ Len(target) >= 2) =>
        LET n == Len(target)
        IN  /\ \A i \in 1..Len(oracle) :
                  /\ oracle[i].q \in 0..(n - 1)
                  /\ Elements(oracle[i].ctrl) \subseteq 0..(n - 1)
                  /\ oracle[i].q \notin Elements(oracle[i].ctrl)
                  /\ MultiControlled(oracle[i]) =>
                        /\ Elements(oracle[i].ctrl) = 0..(n - 2)
                        /\ Len(oracle[i].ctrl) = n - 1
                        /\ oracle[i].q = n - 1
                        /\ n = 3 =>
                              /\ oracle[i].g = "ccx"
                              /\ oracle[i].ctrl = GateMCX(Range(n - 1), n - 1).ctrl
                              /\ oracle[i].q = GateMCX(Range(n - 1), n - 1).q
            /\ Cardinality({ i \in 1..Len(oracle) : MultiControlled(oracle[i]) }) = 1

\* the oracle has been built for a target of four characters with a '0' in
\* it: X gates around an mcx of three controls
OracleGatesAreWellFormedWitness ==
    /\ func = "get_grover_oracle"
    /\ pc = "oracle_built"
    /\ Len(target) = 4
    /\ target[2] = "0"
    /\ \E i \in 1..Len(oracle) : oracle[i].g = "mcx" /\ Len(oracle[i].ctrl) = 3


----------------------------------------------------------------------------
(* Properties of the programs, continued: noise model and shots *)

\* C19: in each iteration of the noise-rate sweep the noise model in use was
\* built in that iteration, and every gate name it covers carries exactly
\* one depolarizing channel, whose probability is that iteration's rate.
EachGateCarriesOneChannel ==
    (program = "run_experiment_1_noise_sweep" /\ idx > 0) =>
        \A name \in DOMAIN noise_model :
            /\ Len(noise_model[name]) = 1
            /\ noise_model[name][1].rate = idx


\* the counts of h over the keys of all_states, summed
TotalOver(h, states) == SumFn([st \in states |-> Get(h, st)], states)

\* C20: at every call of calculate_hellinger_fidelity made by a program, the
\* shots argument is the number of shots both histograms passed in were run
\* with (the program's shots): the counts of each sum to it, so the
\* probabilities derived from each over all_states sum to 1.
FidelityShotsMatchRuns ==
    \A i \in 1..Len(calls) :
        /\ calls[i].shots = shots
        /\ calls[i].shots > 0
        /\ Total(calls[i].ideal) = calls[i].shots
        /\ Total(calls[i].noisy) = calls[i].shots
        /\ TotalOver(calls[i].ideal, AllStates(calls[i].ideal, calls[i].noisy))
              = calls[i].shots
        /\ TotalOver(calls[i].noisy, AllStates(calls[i].ideal, calls[i].noisy))
              = calls[i].shots

\* main has computed its fidelity on two different histograms of two shots
FidelityShotsMatchRunsWitness ==
    /\ program = "main"
    /\ pc = "done"
    /\ Len(calls) = 1
    /\ shots = 2
    /\ calls[1].ideal # calls[1].noisy
    /\ DOMAIN calls[1].ideal # DOMAIN calls[1].noisy


----------------------------------------------------------------------------
(* The duplicated definitions *)

\* create_oracle_for_101 of bloch_animation.py
bloch_create_oracle_for_101 ==
    << GateX(1), GateH(2), GateCCX(0, 1, 2), GateH(2), GateX(1) >>

\* the fallback without its last step: hellinger_sum is returned unsquared
fallback_calculate_hellinger_fidelity_no_square(a, b, shots_arg) ==
    IF AllStates(a, b) = {}
    THEN Returned([num |-> << >>, den |-> 1])
    ELSE IF shots_arg = 0 THEN ZeroDivisionError
    ELSE Returned(HellingerSum(a, b, shots_arg))

\* calculate_hellinger_fidelity as hardware_stress_test.py defines it when
\* its import from main fails: all_states, the two probability
\* dictionaries, the sum of the square roots, its square
fallback_calculate_hellinger_fidelity(a, b, shots_arg) ==
    IF AllStates(a, b) = {}
    THEN Returned([num |-> << >>, den |-> 1])
    ELSE IF shots_arg = 0 THEN ZeroDivisionError
    ELSE Returned(Square(HellingerSum(a, b, shots_arg)))

\* the three builders of the oracle of '101'
Oracle101Funcs == { "get_grover_oracle", "create_oracle_for_101",
                    "bloch_animation.create_oracle_for_101" }

\* the two definitions of the fidelity
FidelityFuncs == { "calculate_hellinger_fidelity",
                   "fallback_calculate_hellinger_fidelity" }

\* one of the builders is about to be called for '101', or one of the
\* fidelity functions on a pair of histograms
InitDuplicates ==
    /\ func \in Oracle101Funcs \cup FidelityFuncs
    /\ pc = (IF func \in Oracle101Funcs THEN "start" ELSE "call")
    /\ target = (IF func \in Oracle101Funcs THEN Target101 ELSE << >>)
    /\ ideal_counts \in (IF func \in FidelityFuncs THEN Histograms ELSE { << >> })
    /\ noisy_counts \in (IF func \in FidelityFuncs THEN Histograms ELSE { << >> })
    /\ shots \in (IF func \in FidelityFuncs THEN 0..MaxShots ELSE { 0 })
    /\ outcome = [kind |-> "none", num |-> << >>, den |-> 0]
    /\ nqubits = 0
    /\ nclbits = 0
    /\ qc = << >>
    /\ oracle = << >>
    /\ grover_op = << >>
    /\ k = 0
    /\ iter = 0
    /\ psi = << >>
    /\ hexp = 0
    /\ ip = 0
    /\ input = 0
    /\ passes = 0
    /\ NoSweep

\* get_grover_oracle('101') / create_oracle_for_101() of main.py /
\* create_oracle_for_101() of bloch_animation.py
BuildOracle101 ==
    /\ pc = "start"
    /\ func \in Oracle101Funcs
    /\ oracle' = (IF func = "get_grover_oracle" THEN get_grover_oracle(target)
                  ELSE IF func = "create_oracle_for_101" THEN create_oracle_for_101
                  ELSE bloch_create_oracle_for_101)
    /\ nqubits' = 3
    /\ pc' = "oracle_built"
    /\ UNCHANGED << func, target, nclbits, qc, grover_op, k, iter, psi, hexp,
                    ip, input, passes >>
    /\ UNCHANGED fidelityVars
    /\ UNCHANGED sweepVars

\* fid = calculate_hellinger_fidelity(ideal_counts, noisy_counts, shots),
\* the name bound to the fallback
CallFallbackFidelity ==
    /\ pc = "call"
    /\ func = "fallback_calculate_hellinger_fidelity"
    /\ outcome' = fallback_calculate_hellinger_fidelity(ideal_counts, noisy_counts,
                                                        shots)
    /\ pc' = "returned"
    /\ UNCHANGED << ideal_counts, noisy_counts, shots >>
    /\ UNCHANGED circuitVars
    /\ UNCHANGED sweepVars

NextDuplicates ==
    \/ BuildOracle101
    \/ CallFidelity
    \/ CallFallbackFidelity

SpecDuplicates == InitDuplicates /\ [][NextDuplicates]_vars

\* C21: each of the three builders of the oracle of '101' (the fallback
\* get_grover_oracle called with '101', create_oracle_for_101 of main.py and
\* of bloch_animation.py) returns the gates x(1), h(2), ccx(0,1,2), h(2),
\* x(1) in that order; and for every pair of histograms and every shots > 0
\* what either definition of calculate_hellinger_fidelity returns is what
\* the other returns on the same arguments.
DuplicatesAgree ==
    /\ (pc = "oracle_built" /\ func \in Oracle101Funcs) =>
          oracle = << [g |-> "x", ctrl |-> << >>, q |-> 1, c |-> -1],
                      [g |-> "h", ctrl |-> << >>, q |-> 2, c |-> -1],
                      [g |-> "ccx", ctrl |-> << 0, 1 >>, q |-> 2, c |-> -1],
                      [g |-> "h", ctrl |-> << >>, q |-> 2, c |-> -1],
                      [g |-> "x", ctrl |-> << >>, q |-> 1, c |-> -1] >>
    /\ (pc = "returned" /\ func \in FidelityFuncs /\ shots > 0) =>
          /\ outcome.kind = "value"
          /\ outcome = calculate_hellinger_fidelity(ideal_counts, noisy_counts, shots)
          /\ outcome = fallback_calculate_hellinger_fidelity(ideal_counts,
                                                             noisy_counts, shots)

\* the fallback has returned a fidelity strictly between 0 and 1 for two
\* different histograms of two shots each
DuplicatesAgreeWitness ==
    /\ pc = "returned"
    /\ func = "fallback_calculate_hellinger_fidelity"
    /\ shots = 2
    /\ Total(ideal_counts) = 2
    /\ Total(noisy_counts) = 2
    /\ ideal_counts # noisy_counts
    /\ outcome.kind = "value"
    /\ ValueGtZero(outcome)
    /\ Upper(outcome) < 1000 * outcome.den

============================================================================
